---- MODULE Spec2Model ----
(***************************************************************************)
(* Model of the policy-PDF retrieval glue layer: the token chunker, the    *)
(* ingestion pipeline (process_pdfs_to_vectors, upsert_to_pinecone) of     *)
(* vector_db.py, and the retrieval entry points of vector_db.py,           *)
(* search_helper.py, openai_agent.py, api_server.py, api_vercel.py,        *)
(* faq.py and faq2.py.                                                     *)
(*                                                                         *)
(* A text is represented by its cl100k_base token sequence: the text of n  *)
(* tokens is <<1, ..., n>>, and the empty string is <<>>.  A decoded       *)
(* chunk is represented by the token window it was decoded from.  The      *)
(* embedding service, the vector index and the PDF reader are external:    *)
(* each call either succeeds or raises, chosen nondeterministically.       *)
(***************************************************************************)
EXTENDS Integers, Sequences, FiniteSets, TLC

VARIABLES
    pc,               \* position of the running function
    tokens,           \* chunk_text_by_tokens: encoding.encode(text)
    max_tokens,       \* chunk_text_by_tokens: parameter
    overlap,          \* chunk_text_by_tokens: parameter
    start,            \* chunk_text_by_tokens: loop variable
    chunks,           \* chunk_text_by_tokens: the list being built
    spans,            \* per chunk, the token range [lo, hi) its slice selected
    fs,               \* the files the glob pattern matches: path -> content
    pdf_files,        \* process_pdfs_to_vectors: glob.glob(pdf_pattern)
    max_chunk_tokens, \* process_pdfs_to_vectors: parameter
    fi,               \* process_pdfs_to_vectors: position of file_path in pdf_files
    idx,              \* process_pdfs_to_vectors: enumerate index of the chunk
    policy_vectors,   \* process_pdfs_to_vectors: the list being built
    vectors,          \* upsert_to_pinecone: parameter
    batch_size,       \* upsert_to_pinecone: parameter
    bi,               \* upsert_to_pinecone: loop variable i
    store,            \* the vector index: record id -> record metadata
    req,              \* the retrieval request being served
    result,           \* what the last finished call gave its caller
    calls,            \* calls made to the embedding service and the index
    out,              \* lines printed to stdout
    run,              \* number of the run of the ingestion script
    ids_run1,         \* ids in the index when the first run ended
    faults,           \* external failures so far
    messages,         \* run_agent: the conversation sent to the chat model
    tool_call         \* run_agent: position of tool_call in response_message.tool_calls

chunkVars == <<tokens, max_tokens, overlap, start, chunks, spans>>
procVars == <<fs, pdf_files, max_chunk_tokens, fi, idx, policy_vectors>>
upsertVars == <<vectors, batch_size, bi>>
runVars == <<run, ids_run1>>
agentVars == <<messages, tool_call>>
vars == <<pc, chunkVars, procVars, upsertVars, store, req, result, calls, out,
          runVars, agentVars, faults>>

----------------------------------------------------------------------------
(* Bounds of the model. *)

MaxTokens == 5      \* longest text given to the chunker directly, in tokens
MaxWindow == 4      \* largest max_tokens / overlap given to the chunker directly
MaxVectors == 5     \* longest list given to upsert_to_pinecone directly
MaxBatch == 3       \* largest small batch_size given to upsert_to_pinecone
MaxFaults == 2      \* external failures followed in one behaviour

MaxDocs == 3        \* most files the glob pattern matches
MaxDocTokens == 2   \* longest extracted text of a file, in tokens
MaxStep == 2        \* largest max_chunk_tokens - 200 a caller passes, the default aside

MaxToolCalls == 2   \* most tool calls in one response of the chat model

\* upsert_to_pinecone(index, vectors, batch_size=100)
DefaultBatchSize == 100

\* chunk_text_by_tokens(text, max_tokens=8000, overlap=200)
DefaultOverlap == 200

\* process_pdfs_to_vectors(pdf_pattern, max_chunk_tokens=6000)
DefaultMaxChunkTokens == 6000

----------------------------------------------------------------------------
(* Helpers. *)

Min(a, b) == IF a < b THEN a ELSE b
Max(a, b) == IF a > b THEN a ELSE b

\* Python None, and a call that returned nothing yet.
None == "<None>"
NoResult == [how |-> "-", kind |-> "-", items |-> <<>>, detail |-> "-"]
NoReq == [ep |-> "-", name |-> "-", query |-> "-", top_k |-> 0]

\* A value returned to the caller, and an exception raised to the caller.
Return(kind, items, detail) ==
    [how |-> "return", kind |-> kind, items |-> items, detail |-> detail]
Raise(kind, detail) ==
    [how |-> "raise", kind |-> kind, items |-> <<>>, detail |-> detail]

\* A call to an external service: co.embed, index.query, index.upsert.
Call(svc, input_type, site, arg, ok) ==
    [svc |-> svc, input_type |-> input_type, site |-> site, arg |-> arg, ok |-> ok]

\* A printed line.
Line(msg, file, n) == [msg |-> msg, file |-> file, n |-> n]

\* The values the variables of a function hold while it is not running.
ChunkIdle ==
    /\ tokens = <<>> /\ max_tokens = 0 /\ overlap = 0
    /\ start = 0 /\ chunks = <<>> /\ spans = <<>>
ProcIdle ==
    /\ fs = <<>> /\ pdf_files = <<>> /\ max_chunk_tokens = 0
    /\ fi = 0 /\ idx = 0 /\ policy_vectors = <<>>
UpsertIdle == vectors = <<>> /\ batch_size = 0 /\ bi = 0
RunIdle == run = 1 /\ ids_run1 = {}
AgentIdle == messages = <<>> /\ tool_call = 0

\* The text of n tokens.
TextOf(n) == [i \in 1..n |-> i]

\* Python slice index normalisation for a sequence of length n.
SliceIndex(i, n) == IF i < 0 THEN Max(i + n, 0) ELSE Min(i, n)

\* Python s[a:b].
PySlice(s, a, b) == SubSeq(s, SliceIndex(a, Len(s)) + 1, SliceIndex(b, Len(s)))

\* The half-open token range [lo, hi) that s[a:b] selects.
PySpan(s, a, b) ==
    LET lo == SliceIndex(a, Len(s))
        hi == SliceIndex(b, Len(s))
    IN  <<lo, Max(lo, hi)>>

----------------------------------------------------------------------------
(* chunk_text_by_tokens (vector_db.py 15-31). *)

\* Mutant: the loop test is off by one and drops the last token's window.
LoopCond_offByOne(s, n) == s + 1 < n

\* while start < len(tokens)
LoopCond(s, n) == s < n

\* Mutant: the window advances by max_tokens, without overlap.
NextStart_noOverlap(s, w, o) == s + w

\* start += max_tokens - overlap
NextStart(s, w, o) == s + w - o

\* The loop can run for ever; the model stops following it after this many
\* windows, which is more than any terminating run of the model produces.
LoopCap == MaxTokens + 2

\* Entry of chunk_text_by_tokens(text, max_tokens, overlap): lines 19-23.
ChunkEnter(text, w, o) ==
    /\ tokens' = text
    /\ max_tokens' = w
    /\ overlap' = o
    /\ start' = 0
    /\ chunks' = <<>>
    /\ spans' = <<>>

\* One iteration of the while loop: lines 24-29.
ChunkStep ==
    /\ pc = "chunk_loop"
    /\ LoopCond(start, Len(tokens))
    /\ Len(chunks) < LoopCap
    /\ LET end == start + max_tokens
       IN  /\ chunks' = Append(chunks, PySlice(tokens, start, end))
           /\ spans' = Append(spans, PySpan(tokens, start, end))
    /\ start' = NextStart(start, max_tokens, overlap)
    /\ UNCHANGED <<pc, tokens, max_tokens, overlap>>
    /\ UNCHANGED <<procVars, upsertVars, store, req, result, calls, out, runVars,
                   agentVars, faults>>

\* Loop exit and return chunks: lines 24, 31.
ChunkExit(to) ==
    /\ pc = "chunk_loop"
    /\ ~LoopCond(start, Len(tokens))
    /\ pc' = to

\* A direct call returns to its caller.
ChunkReturn ==
    /\ ChunkExit("chunk_returned")
    /\ UNCHANGED chunkVars
    /\ UNCHANGED <<procVars, upsertVars, store, req, result, calls, out, runVars,
                   agentVars, faults>>

InitChunk ==
    /\ pc = "chunk_loop"
    /\ tokens \in {TextOf(n) : n \in 0..MaxTokens}
    /\ max_tokens \in 1..MaxWindow
    /\ overlap \in 0..MaxWindow
    /\ start = 0
    /\ chunks = <<>>
    /\ spans = <<>>
    /\ ProcIdle /\ UpsertIdle /\ RunIdle /\ AgentIdle
    /\ store = {} /\ req = NoReq /\ result = NoResult
    /\ calls = <<>> /\ out = <<>> /\ faults = 0

NextChunk == ChunkStep \/ ChunkReturn

SpecChunk == InitChunk /\ [][NextChunk]_vars

----------------------------------------------------------------------------
(* Index records (vector_db.py 119-130) and the vector index. *)

\* A file name is os.path.basename(file_path): its stem and its extension.
FileName(stem, ext) == [stem |-> stem, ext |-> ext]

\* os.path.splitext(filename)[0]
SplitextStem(filename) == filename.stem

\* Mutant: the id counts the records made so far, not the chunk of the file.
RecordId_position(filename, i) == <<SplitextStem(filename), i + Len(policy_vectors)>>

\* f"{os.path.splitext(filename)[0]}-chunk-{idx}", as the pair (stem, idx).
RecordId(filename, i) == <<SplitextStem(filename), i>>

\* The dictionary appended to policy_vectors.  "chunk" stands for what is
\* computed from the chunk alone: values, content_preview and char_count.
Record(filename, i, total, chunk) ==
    [id |-> RecordId(filename, i),
     source |-> filename,
     chunk_index |-> i,
     total_chunks |-> total,
     type |-> "policy",
     chunk |-> chunk]

\* The ids of a list of records.
IdsOf(recs) == {recs[k].id : k \in 1..Len(recs)}

\* index.upsert(vectors=batch): insert, or overwrite the record of the same
\* id; of two records of one id in a batch the later one stays.
Upserted(st, batch) ==
    {r \in st : r.id \notin IdsOf(batch)}
    \cup {batch[k] : k \in {j \in 1..Len(batch) :
                              \A l \in (j + 1)..Len(batch) : batch[l].id # batch[j].id}}

----------------------------------------------------------------------------
(* upsert_to_pinecone (vector_db.py 137-160). *)

\* Entry of upsert_to_pinecone(index, vectors, batch_size).
UpsertEnter(vs, bs) ==
    /\ vectors' = vs
    /\ batch_size' = bs
    /\ bi' = 0

\* if not vectors: print; return (lines 146-148).
UpsertEmpty(to) ==
    /\ pc = "upsert_entry"
    /\ vectors = <<>>
    /\ out' = Append(out, Line("No vectors to upsert", "-", 0))
    /\ result' = Return("None", <<>>, "-")
    /\ pc' = to

\* print(f"Upserting ...") and the first evaluation of range (lines 150-152).
UpsertBegin ==
    /\ pc = "upsert_entry"
    /\ vectors # <<>>
    /\ out' = Append(out, Line("Upserting vectors in batches", "-", Len(vectors)))
    /\ pc' = "upsert_loop"
    /\ UNCHANGED <<chunkVars, procVars, upsertVars, store, req, result, calls,
                   runVars, agentVars, faults>>

\* The batch of the iteration: vectors[i:i+batch_size] (line 153).
Batch == PySlice(vectors, bi, bi + batch_size)

\* i//batch_size + 1, the batch number printed.
BatchNo == (bi \div batch_size) + 1

\* One iteration whose index.upsert succeeds (lines 153-156).
UpsertBatchOk ==
    /\ pc = "upsert_loop"
    /\ bi < Len(vectors)
    /\ calls' = Append(calls, Call("upsert", "-", "upsert_to_pinecone", Batch, TRUE))
    /\ store' = Upserted(store, Batch)
    /\ out' = Append(out, Line("Upserted batch", "-", BatchNo))
    /\ bi' = bi + batch_size
    /\ UNCHANGED <<pc, chunkVars, procVars, vectors, batch_size, req, result,
                   runVars, agentVars, faults>>

\* Mutant: a failed batch ends the loop.
UpsertBatchFail_aborts ==
    /\ pc = "upsert_loop"
    /\ bi < Len(vectors)
    /\ faults < MaxFaults
    /\ faults' = faults + 1
    /\ calls' = Append(calls, Call("upsert", "-", "upsert_to_pinecone", Batch, FALSE))
    /\ out' = Append(out, Line("Error upserting batch", "-", BatchNo))
    /\ bi' = Len(vectors)
    /\ UNCHANGED <<pc, chunkVars, procVars, vectors, batch_size, store, req,
                   result, runVars, agentVars>>

\* One iteration whose index.upsert raises (lines 153-155, 157-158).
UpsertBatchFail ==
    /\ pc = "upsert_loop"
    /\ bi < Len(vectors)
    /\ faults < MaxFaults
    /\ faults' = faults + 1
    /\ calls' = Append(calls, Call("upsert", "-", "upsert_to_pinecone", Batch, FALSE))
    /\ out' = Append(out, Line("Error upserting batch", "-", BatchNo))
    /\ bi' = bi + batch_size
    /\ UNCHANGED <<pc, chunkVars, procVars, vectors, batch_size, store, req,
                   result, runVars, agentVars>>

\* End of the loop, the closing print and the return of None (line 160).
UpsertFinish(to) ==
    /\ pc = "upsert_loop"
    /\ ~(bi < Len(vectors))
    /\ out' = Append(out, Line("Successfully inserted policy chunks", "-", Len(vectors)))
    /\ result' = Return("None", <<>>, "-")
    /\ pc' = to

\* A direct call returns to its caller.
UpsertEmptyReturn ==
    /\ UpsertEmpty("upsert_returned")
    /\ UNCHANGED <<chunkVars, procVars, upsertVars, store, req, calls, runVars, agentVars, faults>>

UpsertReturn ==
    /\ UpsertFinish("upsert_returned")
    /\ UNCHANGED <<chunkVars, procVars, upsertVars, store, req, calls, runVars, agentVars, faults>>

\* The lists given to a direct call: n records of one document.
TestVectors(n) ==
    [k \in 1..n |-> Record(FileName("refund", ".pdf"), k - 1, n, <<k>>)]

InitUpsert ==
    /\ pc = "upsert_entry"
    /\ vectors \in {TestVectors(n) : n \in 0..MaxVectors}
    /\ batch_size \in (1..MaxBatch) \cup {DefaultBatchSize}
    /\ bi = 0
    /\ ChunkIdle /\ ProcIdle /\ RunIdle /\ AgentIdle
    /\ store = {} /\ req = NoReq /\ result = NoResult
    /\ calls = <<>> /\ out = <<>> /\ faults = 0

NextUpsert ==
    \/ UpsertEmptyReturn
    \/ UpsertBegin
    \/ UpsertBatchOk
    \/ UpsertBatchFail
    \/ UpsertReturn

SpecUpsert == InitUpsert /\ [][NextUpsert]_vars

----------------------------------------------------------------------------
(* The retrieval entry points.  Each handler is a function of its arguments *)
(* and of what the two external calls do; it gives the calls it makes, the  *)
(* lines it prints and what its caller receives.                            *)

\* Python truthiness of a query: "not query".
Falsy(q) == q = "" \/ q = None

\* A match of index.query: a score in units of 1e-5 and the metadata keys
\* "source" and "content_preview", None when the key is absent.
Match(score, source, preview) ==
    [score |-> score, source |-> source, content_preview |-> preview]

\* The text s written n times.
RECURSIVE Repeat(_, _)
Repeat(s, n) == IF n = 0 THEN "" ELSE s \o Repeat(s, n - 1)

\* A content_preview of 400 characters, longer than the 300 some entry
\* points keep.
LongPreview == Repeat("0123456789", 40)

MatchLists ==
    { <<>>,
      << Match(91234, "refund.pdf", "Refunds are processed within 14 days.") >>,
      << Match(91234, "refund.pdf", "Refunds are processed within 14 days."),
         Match(55555, None, None) >>,
      << Match(12345, "warranty.pdf", LongPreview) >> }

\* What the external calls of one search do: co.embed raises, or it succeeds
\* and index.query raises, or both succeed and the index gives the matches.
Outcomes ==
    { [embed_ok |-> FALSE, index_ok |-> FALSE, matches |-> <<>>],
      [embed_ok |-> TRUE, index_ok |-> FALSE, matches |-> <<>>] }
    \cup { [embed_ok |-> TRUE, index_ok |-> TRUE, matches |-> m] : m \in MatchLists }

\* str(e) of the exception the try block caught.
ErrorText(o) == IF ~o.embed_ok THEN "embedding error" ELSE "index error"

\* Mutant: a search embeds its query with the document intent.
SearchCalls_documentIntent(site, q, k, o) ==
    <<Call("embed", "search_document", site, q, o.embed_ok)>>
    \o (IF o.embed_ok THEN <<Call("query", "-", site, k, o.index_ok)>> ELSE <<>>)

\* co.embed(texts=[query], input_type="search_query") and, when it succeeds,
\* index.query(vector, top_k, include_metadata=True).
SearchCalls(site, q, k, o) ==
    <<Call("embed", "search_query", site, q, o.embed_ok)>>
    \o (IF o.embed_ok THEN <<Call("query", "-", site, k, o.index_ok)>> ELSE <<>>)

\* Number of binary digits of i >= 0.
RECURSIVE BitLen(_)
BitLen(i) == IF i = 0 THEN 0 ELSE 1 + BitLen(i \div 2)

\* A score is a binary float: the double nearest to x / 100000.  The sign of
\* (that double - x / 100000), from the binary expansion of the fraction
\* rem / 100000: "left" digits of the 53-digit significand are still to come
\* (-1 before the leading 1), "last" is the digit produced last, and what
\* remains after the significand decides which way the double was rounded
\* (to the even significand when it is exactly half).
RECURSIVE FloatError(_, _, _)
FloatError(rem, left, last) ==
    IF left = 0
    THEN IF rem = 0 THEN 0
         ELSE IF 2 * rem > 100000 THEN 1
         ELSE IF 2 * rem < 100000 THEN -1
         ELSE IF last = 1 THEN 1 ELSE -1
    ELSE IF rem = 0 THEN 0
    ELSE LET b == (2 * rem) \div 100000
             r == (2 * rem) % 100000
         IN  IF left = -1
             THEN IF b = 1 THEN FloatError(r, 52, 1) ELSE FloatError(r, -1, 0)
             ELSE FloatError(r, left - 1, b)

\* The sign of (the double nearest to x / 100000) - x / 100000, for x >= 0.
FloatErrorSign(x) ==
    LET I == x \div 100000
    IN  FloatError(x % 100000, IF I > 0 THEN 53 - BitLen(I) ELSE -1, I % 2)

\* round(x, 4) and f"{x:.4f}" of a score x >= 0 in units of 1e-5: the
\* multiple of 10 nearest to the value of the float.  When the last digit is
\* 5 the float lies above or below the decimal tie and is rounded that way;
\* when it is exactly the tie, to the even fourth decimal.
Round4Abs(x) ==
    LET q == x \div 10
        r == x % 10
        e == FloatErrorSign(x)
    IN  IF r < 5 THEN q * 10
        ELSE IF r > 5 THEN (q + 1) * 10
        ELSE IF e > 0 THEN (q + 1) * 10
        ELSE IF e < 0 THEN q * 10
        ELSE IF q % 2 = 0 THEN q * 10 ELSE (q + 1) * 10

\* round(x, 4) and f"{x:.4f}" of a score in units of 1e-5.
Round4(x) == IF x < 0 THEN -Round4Abs(-x) ELSE Round4Abs(x)

\* metadata.get(key, default)
GetOr(v, default) == IF v = None THEN default ELSE v

Handled(cs, lines, res) == [calls |-> cs, out |-> lines, result |-> res]

\* search_helper.search_faq (search_helper.py 17-56).
helper_search_faq(q, k, o) ==
    LET site == "search_helper.search_faq"
        fmt(m) == [score |-> m.score,
                   source |-> GetOr(m.source, "Unknown"),
                   content_preview |-> PySlice(GetOr(m.content_preview, ""), 0, 300)]
    IN  Handled(SearchCalls(site, q, k, o), <<>>,
            IF o.embed_ok /\ o.index_ok
            THEN Return("list", [i \in 1..Len(o.matches) |-> fmt(o.matches[i])], "-")
            ELSE Return("list", <<[error |-> ErrorText(o)]>>, "-"))

\* openai_agent.search_faq (openai_agent.py 20-59): a JSON string.
agent_search_faq(q, k, o) ==
    LET site == "openai_agent.search_faq"
        fmt(m) == [score |-> Round4(m.score),
                   source |-> GetOr(m.source, "Unknown"),
                   content |-> GetOr(m.content_preview, "")]
    IN  Handled(SearchCalls(site, q, k, o), <<>>,
            IF o.embed_ok /\ o.index_ok
            THEN Return("json list", [i \in 1..Len(o.matches) |-> fmt(o.matches[i])], "-")
            ELSE Return("json object", <<[error |-> ErrorText(o)]>>, "-"))

\* api_server POST /search (api_server.py 52-88).
server_search_faq(q, k, o) ==
    LET site == "api_server.search_faq"
        fmt(m) == [score |-> Round4(m.score),
                   source |-> GetOr(m.source, "Unknown"),
                   content |-> GetOr(m.content_preview, "")]
    IN  Handled(SearchCalls(site, q, k, o), <<>>,
            IF o.embed_ok /\ o.index_ok
            THEN Return("list", [i \in 1..Len(o.matches) |-> fmt(o.matches[i])], "-")
            ELSE Raise("HTTPException", "500"))

\* api_vercel POST /search (api_vercel.py 26-64); top_k is the literal 3.
vercel_search_faq(q, k, o) ==
    LET site == "api_vercel.search_faq"
        fmt(m) == [score |-> m.score,
                   source |-> GetOr(m.source, "Unknown"),
                   preview |-> PySlice(GetOr(m.content_preview, ""), 0, 300)]
    IN  IF Falsy(q)
        THEN Handled(<<>>, <<>>, Raise("HTTPException", "400"))
        ELSE Handled(SearchCalls(site, q, 3, o), <<>>,
                IF o.embed_ok /\ o.index_ok
                THEN Return("dict", [i \in 1..Len(o.matches) |-> fmt(o.matches[i])],
                            IF o.matches = <<>> THEN "No results found."
                            ELSE "Found results.")
                ELSE Raise("HTTPException", "500"))

\* vector_db.search_policies (vector_db.py 162-188), with embed_query (48-61).
search_policies(q, k, o) ==
    LET site == "vector_db.search_policies"
    IN  Handled(SearchCalls(site, q, k, o),
            (IF ~o.embed_ok
             THEN <<Line("Error generating query embedding", "-", 0)>> ELSE <<>>)
            \o (IF o.embed_ok /\ o.index_ok
                THEN <<>> ELSE <<Line("Error searching", "-", 0)>>),
            IF o.embed_ok /\ o.index_ok
            THEN Return("matches", o.matches, "-")
            ELSE Return("matches", <<>>, "-"))

\* The MCP tool handler call_tool (faq.py 39-79, faq2.py 44-84); a missing
\* "query" argument reads as "", top_k is the literal 3.
call_tool(site, name, q, o) ==
    LET query == GetOr(q, "")
        fmt(m) == [score |-> Round4(m.score),
                   source |-> GetOr(m.source, "Unknown"),
                   preview |-> PySlice(GetOr(m.content_preview, ""), 0, 300)]
    IN  IF name # "search_faq"
        THEN Handled(<<>>, <<>>, Raise("ValueError", "Unknown tool"))
        ELSE IF Falsy(query)
        THEN Handled(<<>>, <<>>,
                     Return("TextContent", <<>>, "Error: Missing 'query' parameter"))
        ELSE Handled(SearchCalls(site, query, 3, o), <<>>,
                IF o.embed_ok /\ o.index_ok
                THEN Return("TextContent",
                            [i \in 1..Len(o.matches) |-> fmt(o.matches[i])],
                            IF o.matches = <<>> THEN "No results found." ELSE "results")
                ELSE Return("TextContent", <<>>, "Error: " \o ErrorText(o)))

faq_call_tool(name, q, o) == call_tool("faq.call_tool", name, q, o)
faq2_call_tool(name, q, o) == call_tool("faq2.call_tool", name, q, o)

\* The inputs of the model.
Queries == {"", "What is the refund policy?"}
TopKs == {-1, 0, 1, 3}
ToolNames == {"search_faq", "list_tools"}

\* One request served: the request, its calls, its prints and its result.
Serve(ep, name, q, k, h) ==
    /\ pc = "serving"
    /\ req' = [ep |-> ep, name |-> name, query |-> q, top_k |-> k]
    /\ calls' = h.calls
    /\ out' = h.out
    /\ result' = h.result

HelperSearch ==
    \E q \in Queries, k \in TopKs, o \in Outcomes :
        /\ Serve("search_helper.search_faq", "-", q, k, helper_search_faq(q, k, o))
        /\ UNCHANGED <<pc, chunkVars, procVars, upsertVars, store, runVars, agentVars, faults>>

AgentSearch ==
    \E q \in Queries \cup {None}, k \in TopKs, o \in Outcomes :
        /\ Serve("openai_agent.search_faq", "-", q, k, agent_search_faq(q, k, o))
        /\ UNCHANGED <<pc, chunkVars, procVars, upsertVars, store, runVars, agentVars, faults>>

ServerSearch ==
    \E q \in Queries, k \in TopKs, o \in Outcomes :
        /\ Serve("api_server.search_faq", "-", q, k, server_search_faq(q, k, o))
        /\ UNCHANGED <<pc, chunkVars, procVars, upsertVars, store, runVars, agentVars, faults>>

VercelSearch ==
    \E q \in Queries, o \in Outcomes :
        /\ Serve("api_vercel.search_faq", "-", q, 3, vercel_search_faq(q, 3, o))
        /\ UNCHANGED <<pc, chunkVars, procVars, upsertVars, store, runVars, agentVars, faults>>

PolicySearch ==
    \E q \in Queries, k \in TopKs, o \in Outcomes :
        /\ Serve("vector_db.search_policies", "-", q, k, search_policies(q, k, o))
        /\ UNCHANGED <<pc, chunkVars, procVars, upsertVars, store, runVars, agentVars, faults>>

FaqTool ==
    \E n \in ToolNames, q \in Queries \cup {None}, o \in Outcomes :
        /\ Serve("faq.call_tool", n, q, 3, faq_call_tool(n, q, o))
        /\ UNCHANGED <<pc, chunkVars, procVars, upsertVars, store, runVars, agentVars, faults>>

Faq2Tool ==
    \E n \in ToolNames, q \in Queries \cup {None}, o \in Outcomes :
        /\ Serve("faq2.call_tool", n, q, 3, faq2_call_tool(n, q, o))
        /\ UNCHANGED <<pc, chunkVars, procVars, upsertVars, store, runVars, agentVars, faults>>

InitSearch ==
    /\ pc = "serving"
    /\ ChunkIdle /\ ProcIdle /\ UpsertIdle /\ RunIdle /\ AgentIdle
    /\ store = {} /\ req = NoReq /\ result = NoResult
    /\ calls = <<>> /\ out = <<>> /\ faults = 0

NextSearch ==
    \/ HelperSearch
    \/ AgentSearch
    \/ ServerSearch
    \/ VercelSearch
    \/ PolicySearch
    \/ FaqTool
    \/ Faq2Tool

SpecSearch == InitSearch /\ [][NextSearch]_vars

----------------------------------------------------------------------------
(* run_agent (openai_agent.py 87-151).  The chat model is external: a       *)
(* completion request raises, or it answers with a message that carries a   *)
(* content and any list of tool calls, whatever the tools offered.          *)

\* A message of the conversation.
SystemMessage == [role |-> "system", content |-> "You are a helpful customer service assistant."]
UserMessage(text) == [role |-> "user", content |-> text]
AssistantMessage(content, tcs) ==
    [role |-> "assistant", content |-> content, tool_calls |-> tcs]
ToolMessage(id, name, content) ==
    [role |-> "tool", tool_call_id |-> id, name |-> name, content |-> content]

\* A tool call of a response: tool_call.id, tool_call.function.name and
\* tool_call.function.arguments.
ToolCall(id, name, arguments) == [id |-> id, name |-> name, arguments |-> arguments]

\* function.arguments as the chat model can write it: a JSON object with or
\* without the keys "query" and "top_k" (an absent query reads as None), or
\* a text json.loads rejects.
Arguments(valid, query, has_top_k, top_k) ==
    [valid |-> valid, query |-> query, has_top_k |-> has_top_k, top_k |-> top_k]
ToolArguments ==
    { Arguments(TRUE, "What is the refund policy?", FALSE, 0),
      Arguments(TRUE, None, TRUE, 1),
      Arguments(FALSE, None, FALSE, 0) }

\* The function names a tool call can carry: the tool offered, and another.
ToolCallNames == {"search_faq", "get_weather"}

\* The lists of tool calls of a response, their ids distinct; the empty list
\* stands for tool_calls = None.
ToolCallLists ==
    UNION {{[i \in 1..n |-> ToolCall(<<"call", i>>, f[i][1], f[i][2])] :
               f \in [1..n -> ToolCallNames \X ToolArguments]} : n \in 0..MaxToolCalls}

\* response.choices[0].message of the first request.
Responses ==
    {AssistantMessage(IF tcs = <<>> THEN "Refunds take 14 days." ELSE None, tcs) :
        tcs \in ToolCallLists}

\* response_message and tool_call of the running loop.
response_message == messages[3]
ToolCallNow == response_message.tool_calls[tool_call]

\* The first request raises (lines 107-112): the exception leaves run_agent.
AgentFirstFail ==
    /\ pc = "agent_first"
    /\ calls' = Append(calls, Call("chat", "-", "run_agent.first", messages, FALSE))
    /\ result' = Raise("APIError", "first completion")
    /\ pc' = "agent_raised"
    /\ UNCHANGED <<chunkVars, procVars, upsertVars, store, req, out, runVars,
                   agentVars, faults>>

\* The first request answers without tool calls (lines 107-118, 147-151).
AgentFirstAnswer ==
    /\ pc = "agent_first"
    /\ \E r \in Responses :
          /\ r.tool_calls = <<>>
          /\ calls' = Append(calls, Call("chat", "-", "run_agent.first", messages, TRUE))
          /\ messages' = Append(messages, r)
          /\ out' = Append(out, Line("Assistant", "-", 0))
          /\ result' = Return("str", <<>>, r.content)
    /\ pc' = "agent_returned"
    /\ UNCHANGED <<chunkVars, procVars, upsertVars, store, req, runVars,
                   tool_call, faults>>

\* The first request answers with tool calls (lines 107-119).
AgentFirstTools ==
    /\ pc = "agent_first"
    /\ \E r \in Responses :
          /\ r.tool_calls # <<>>
          /\ calls' = Append(calls, Call("chat", "-", "run_agent.first", messages, TRUE))
          /\ messages' = Append(messages, r)
    /\ tool_call' = 1
    /\ pc' = "agent_tools"
    /\ UNCHANGED <<chunkVars, procVars, upsertVars, store, req, result, out,
                   runVars, faults>>

\* An iteration whose json.loads raises (line 121): the exception leaves
\* run_agent.
AgentToolBadArguments ==
    /\ pc = "agent_tools"
    /\ tool_call <= Len(response_message.tool_calls)
    /\ ~ToolCallNow.arguments.valid
    /\ result' = Raise("JSONDecodeError", "function.arguments")
    /\ pc' = "agent_raised"
    /\ UNCHANGED <<chunkVars, procVars, upsertVars, store, req, calls, out,
                   runVars, agentVars, faults>>

\* An iteration for search_faq (lines 120-138): the search and the tool
\* message.
AgentToolSearch ==
    /\ pc = "agent_tools"
    /\ tool_call <= Len(response_message.tool_calls)
    /\ ToolCallNow.arguments.valid
    /\ ToolCallNow.name = "search_faq"
    /\ \E o \in Outcomes :
          LET function_args == ToolCallNow.arguments
              top_k == IF function_args.has_top_k THEN function_args.top_k ELSE 3
              h == agent_search_faq(function_args.query, top_k, o)
          IN  /\ calls' = calls \o h.calls
              /\ out' = out \o <<Line("Searching policies for", "-", tool_call),
                                 Line("Found results from policy documents", "-", tool_call)>>
              /\ messages' = Append(messages,
                                 ToolMessage(ToolCallNow.id, ToolCallNow.name, h.result))
    /\ tool_call' = tool_call + 1
    /\ UNCHANGED <<pc, chunkVars, procVars, upsertVars, store, req, result,
                   runVars, faults>>

\* An iteration for any other function name (lines 120-125): the print, and
\* nothing appended.
AgentToolOther ==
    /\ pc = "agent_tools"
    /\ tool_call <= Len(response_message.tool_calls)
    /\ ToolCallNow.arguments.valid
    /\ ToolCallNow.name # "search_faq"
    /\ out' = Append(out, Line("Searching policies for", "-", tool_call))
    /\ tool_call' = tool_call + 1
    /\ UNCHANGED <<pc, chunkVars, procVars, upsertVars, store, req, result, calls,
                   runVars, messages, faults>>

\* The second request raises (lines 141-144).
AgentSecondFail ==
    /\ pc = "agent_tools"
    /\ ~(tool_call <= Len(response_message.tool_calls))
    /\ calls' = Append(calls, Call("chat", "-", "run_agent.second", messages, FALSE))
    /\ result' = Raise("APIError", "second completion")
    /\ pc' = "agent_raised"
    /\ UNCHANGED <<chunkVars, procVars, upsertVars, store, req, out, runVars,
                   agentVars, faults>>

\* The second request answers (lines 141-151).
AgentSecondAnswer ==
    /\ pc = "agent_tools"
    /\ ~(tool_call <= Len(response_message.tool_calls))
    /\ calls' = Append(calls, Call("chat", "-", "run_agent.second", messages, TRUE))
    /\ out' = Append(out, Line("Assistant", "-", 0))
    /\ result' = Return("str", <<>>, "Refunds take 14 days.")
    /\ pc' = "agent_returned"
    /\ UNCHANGED <<chunkVars, procVars, upsertVars, store, req, runVars,
                   agentVars, faults>>

\* run_agent(user_message) up to the first request: lines 91-104.
InitAgent ==
    /\ pc = "agent_first"
    /\ \E user_message \in Queries :
          /\ req = [ep |-> "openai_agent.run_agent", name |-> "-",
                    query |-> user_message, top_k |-> 0]
          /\ messages = <<SystemMessage, UserMessage(user_message)>>
    /\ tool_call = 0
    /\ ChunkIdle /\ ProcIdle /\ UpsertIdle /\ RunIdle
    /\ store = {} /\ result = NoResult
    /\ calls = <<>> /\ out = <<Line("User", "-", 0)>> /\ faults = 0

NextAgent ==
    \/ AgentFirstFail
    \/ AgentFirstAnswer
    \/ AgentFirstTools
    \/ AgentToolBadArguments
    \/ AgentToolSearch
    \/ AgentToolOther
    \/ AgentSecondFail
    \/ AgentSecondAnswer

SpecAgent == InitAgent /\ [][NextAgent]_vars

----------------------------------------------------------------------------
(* The ingestion: process_pdfs_to_vectors (vector_db.py 81-135) and the     *)
(* script that calls it and upserts its result (vector_db.py 191-217).  The *)
(* script passes the default max_chunk_tokens; other callers pass theirs.   *)

Path(dir, stem, ext) == [dir |-> dir, stem |-> stem, ext |-> ext]

\* The files the disk may hold.
Files ==
    { Path("policies", "refund", ".pdf"),
      Path("policies", "warranty", ".pdf"),
      Path("archive", "refund", ".pdf") }

\* The patterns followed: the script's, and one over every directory.
ScriptPattern == "policies/*.pdf"
AnyDirPattern == "*/*.pdf"

\* fnmatch of a path against a pattern.
PathMatches(p, pdf_pattern) ==
    /\ p.ext = ".pdf"
    /\ pdf_pattern = ScriptPattern => p.dir = "policies"

\* Every order of the elements of S.
RECURSIVE Orderings(_)
Orderings(S) ==
    IF S = {} THEN {<<>>}
    ELSE UNION {{<<p>> \o t : t \in Orderings(S \ {p})} : p \in S}

\* What glob.glob(pdf_pattern) can return: the files on the disk that match,
\* in an order the file system chooses.
GlobResults(pdf_pattern) ==
    UNION {Orderings({p \in D : PathMatches(p, pdf_pattern)}) :
               D \in {T \in SUBSET Files : Cardinality(T) <= MaxDocs}}

\* A file: unreadable, or readable with the text its pages hold, stripped.
DocContents ==
    {[readable |-> FALSE, text |-> <<>>]}
    \cup {[readable |-> TRUE, text |-> TextOf(n)] : n \in 0..MaxDocTokens}

\* The values of max_chunk_tokens followed.
ChunkSizes ==
    {DefaultOverlap + d : d \in 0..MaxStep} \cup {DefaultMaxChunkTokens}

\* os.path.basename(file_path)
Basename(p) == FileName(p.stem, p.ext)

\* Mutant: a file that cannot be read raises out of extract_pdf_text.
extract_pdf_text_raises(p) ==
    IF fs[p].readable
    THEN [raised |-> FALSE, text |-> fs[p].text, out |-> <<>>]
    ELSE [raised |-> TRUE, text |-> <<>>, out |-> <<>>]

\* Mutant: a file that cannot be read gives a placeholder text, not "".
extract_pdf_text_placeholder(p) ==
    IF fs[p].readable
    THEN [raised |-> FALSE, text |-> fs[p].text, out |-> <<>>]
    ELSE [raised |-> FALSE, text |-> TextOf(1), out |-> <<Line("Error reading", p, 0)>>]

\* extract_pdf_text (vector_db.py 63-79): the stripped text, or "" with a
\* printed line when opening or reading raises.
extract_pdf_text(p) ==
    IF fs[p].readable
    THEN [raised |-> FALSE, text |-> fs[p].text, out |-> <<>>]
    ELSE [raised |-> FALSE, text |-> <<>>, out |-> <<Line("Error reading", p, 0)>>]

\* The file of the current iteration.
FilePath == pdf_files[fi]
FileNameNow == Basename(FilePath)

\* glob.glob gave nothing: print and return [] (lines 92-95).
ProcessNoFiles ==
    /\ pc = "process_entry"
    /\ pdf_files = <<>>
    /\ out' = Append(out, Line("No PDFs found matching pattern", "-", 0))
    /\ result' = Return("list", <<>>, "-")
    /\ pc' = "process_returned"
    /\ UNCHANGED <<chunkVars, procVars, upsertVars, store, req, calls, runVars, agentVars, faults>>

\* Lines 97-98 and the start of the for loop.
ProcessBegin ==
    /\ pc = "process_entry"
    /\ pdf_files # <<>>
    /\ out' = Append(out, Line("Found PDF files", "-", Len(pdf_files)))
    /\ policy_vectors' = <<>>
    /\ fi' = 1
    /\ pc' = "for_file"
    /\ UNCHANGED <<chunkVars, fs, pdf_files, max_chunk_tokens, idx, upsertVars,
                   store, req, result, calls, runVars, agentVars, faults>>

\* An iteration whose file gives no text: lines 101-108.  An exception of
\* extract_pdf_text would leave process_pdfs_to_vectors, the call being
\* outside any try block.
ExtractSkip ==
    /\ pc = "for_file"
    /\ fi <= Len(pdf_files)
    /\ LET r == extract_pdf_text(FilePath)
       IN  /\ r.raised \/ r.text = <<>>
           /\ IF r.raised
              THEN /\ out' = Append(out, Line("Processing", FileNameNow, 0))
                   /\ result' = Raise("Exception", "extract_pdf_text")
                   /\ pc' = "process_raised"
                   /\ fi' = fi
              ELSE /\ out' = Append(out, Line("Processing", FileNameNow, 0)) \o r.out
                               \o <<Line("Skipping - no text extracted", FileNameNow, 0)>>
                   /\ result' = result
                   /\ pc' = "for_file"
                   /\ fi' = fi + 1
    /\ UNCHANGED <<chunkVars, fs, pdf_files, max_chunk_tokens, idx, policy_vectors,
                   upsertVars, store, req, calls, runVars, agentVars, faults>>

\* An iteration whose file gives text: lines 101-106 and the call of
\* chunk_text_by_tokens(text, max_tokens=max_chunk_tokens) of line 111.
ExtractChunk ==
    /\ pc = "for_file"
    /\ fi <= Len(pdf_files)
    /\ LET r == extract_pdf_text(FilePath)
       IN  /\ ~r.raised /\ r.text # <<>>
           /\ out' = Append(out, Line("Processing", FileNameNow, 0)) \o r.out
           /\ ChunkEnter(r.text, max_chunk_tokens, DefaultOverlap)
    /\ pc' = "chunk_loop"
    /\ UNCHANGED <<procVars, upsertVars, store, req, result, calls, runVars, agentVars, faults>>

\* chunk_text_by_tokens returns to line 111; line 112 and the start of the
\* loop over the chunks.
ProcessChunked ==
    /\ ChunkExit("embed_loop")
    /\ out' = Append(out, Line("Created chunks", FileNameNow, Len(chunks)))
    /\ idx' = 0
    /\ UNCHANGED <<chunkVars, fs, pdf_files, max_chunk_tokens, fi, policy_vectors,
                   upsertVars, store, req, result, calls, runVars, agentVars, faults>>

\* The chunk of the current iteration.
ChunkNow == chunks[idx + 1]

\* embed_text(chunk) succeeds and the record is appended: lines 115-130, 33-43.
EmbedOk ==
    /\ pc = "embed_loop"
    /\ idx < Len(chunks)
    /\ calls' = Append(calls, Call("embed", "search_document", "embed_text", ChunkNow, TRUE))
    /\ policy_vectors' =
           Append(policy_vectors, Record(FileNameNow, idx, Len(chunks), ChunkNow))
    /\ idx' = idx + 1
    /\ UNCHANGED <<pc, chunkVars, fs, pdf_files, max_chunk_tokens, fi, upsertVars,
                   store, req, result, out, runVars, agentVars, faults>>

\* Mutant: a chunk that cannot be embedded ends the document's loop.
EmbedFail_abandonsDocument ==
    /\ pc = "embed_loop"
    /\ idx < Len(chunks)
    /\ faults < MaxFaults
    /\ faults' = faults + 1
    /\ calls' = Append(calls, Call("embed", "search_document", "embed_text", ChunkNow, FALSE))
    /\ out' = out \o <<Line("Error generating embedding", "-", 0),
                       Line("Error embedding chunk", FileNameNow, idx)>>
    /\ idx' = Len(chunks)
    /\ UNCHANGED <<pc, chunkVars, fs, pdf_files, max_chunk_tokens, fi, policy_vectors,
                   upsertVars, store, req, result, runVars, agentVars>>

\* embed_text(chunk) raises: it prints and re-raises (lines 44-46), the loop
\* prints and continues with the next chunk (lines 131-133).
EmbedFail ==
    /\ pc = "embed_loop"
    /\ idx < Len(chunks)
    /\ faults < MaxFaults
    /\ faults' = faults + 1
    /\ calls' = Append(calls, Call("embed", "search_document", "embed_text", ChunkNow, FALSE))
    /\ out' = out \o <<Line("Error generating embedding", "-", 0),
                       Line("Error embedding chunk", FileNameNow, idx)>>
    /\ idx' = idx + 1
    /\ UNCHANGED <<pc, chunkVars, fs, pdf_files, max_chunk_tokens, fi, policy_vectors,
                   upsertVars, store, req, result, runVars, agentVars>>

\* The chunks of the file are done: the next file.
NextFile ==
    /\ pc = "embed_loop"
    /\ ~(idx < Len(chunks))
    /\ fi' = fi + 1
    /\ pc' = "for_file"
    /\ UNCHANGED <<chunkVars, fs, pdf_files, max_chunk_tokens, idx, policy_vectors,
                   upsertVars, store, req, result, calls, out, runVars, agentVars, faults>>

\* return policy_vectors (line 135).
ProcessReturn ==
    /\ pc = "for_file"
    /\ ~(fi <= Len(pdf_files))
    /\ result' = Return("list", policy_vectors, "-")
    /\ pc' = "process_returned"
    /\ UNCHANGED <<chunkVars, procVars, upsertVars, store, req, calls, out, runVars,
                   agentVars, faults>>

\* if policy_vectors: upsert_to_pinecone(index, policy_vectors) (lines 202-204).
ScriptUpsert ==
    /\ pc = "process_returned"
    /\ policy_vectors # <<>>
    /\ out' = Append(out, Line("=== Uploading to Pinecone ===", "-", 0))
    /\ UpsertEnter(policy_vectors, DefaultBatchSize)
    /\ pc' = "upsert_entry"
    /\ UNCHANGED <<chunkVars, procVars, store, req, result, calls, runVars, agentVars, faults>>

\* else: print("No vectors created. ...") (lines 216-217).
ScriptNoVectors ==
    /\ pc = "process_returned"
    /\ policy_vectors = <<>>
    /\ out' = Append(out, Line("No vectors created", "-", 0))
    /\ pc' = "script_done"
    /\ UNCHANGED <<chunkVars, procVars, upsertVars, store, req, result, calls,
                   runVars, agentVars, faults>>

\* upsert_to_pinecone returns to line 204.
ScriptUpserted ==
    /\ UpsertFinish("test_search")
    /\ UNCHANGED <<chunkVars, procVars, upsertVars, store, req, calls, runVars, agentVars, faults>>

\* The loop over the matches (lines 212-215) from match i on: the lines it
\* prints, and the message of the KeyError a lookup raises, None when none
\* does.
RECURSIVE PrintMatches(_, _)
PrintMatches(ms, i) ==
    IF i > Len(ms) THEN [out |-> <<>>, key |-> None]
    ELSE LET m == ms[i]
             score == <<Line("Score", "-", Round4(m.score))>>
         IN  IF m.source = None
             THEN [out |-> score, key |-> "'source'"]
             ELSE IF m.content_preview = None
             THEN [out |-> score \o <<Line("Source", m.source, i)>>,
                   key |-> "'content_preview'"]
             ELSE LET rest == PrintMatches(ms, i + 1)
                  IN  [out |-> score
                                 \o <<Line("Source", m.source, i),
                                      Line("Preview", PySlice(m.content_preview, 0, 150), i)>>
                                 \o rest.out,
                       key |-> rest.key]

\* search_policies(index, test_query, top_k=3) and the printing of its
\* matches (lines 206-215), up to outcome o of the query; `raises` tells
\* whether the printing ends in a KeyError.
TestSearch(o, raises) ==
    LET q == "What is the refund policy?"
        h == search_policies(q, 3, o)
        failed == ~(o.embed_ok /\ o.index_ok)
        p == PrintMatches(h.result.items, 1)
    IN  /\ raises <=> p.key # None
        /\ failed => faults < MaxFaults
        /\ faults' = IF failed THEN faults + 1 ELSE faults
        /\ req' = [ep |-> "vector_db.search_policies", name |-> "-",
                   query |-> q, top_k |-> 3]
        /\ calls' = calls \o h.calls
        /\ out' = Append(out, Line("=== Testing Search ===", "-", 0))
                      \o h.out
                      \o <<Line("Top results for", "-", Len(h.result.items))>>
                      \o p.out
        /\ result' = IF raises THEN Raise("KeyError", p.key) ELSE h.result

\* Lines 206-215 when every match holds the keys that are printed.
ScriptTestSearch ==
    /\ pc = "test_search"
    /\ \E o \in Outcomes : TestSearch(o, FALSE)
    /\ pc' = "script_done"
    /\ UNCHANGED <<chunkVars, procVars, upsertVars, store, runVars, agentVars>>

\* Lines 206-215 when a match lacks 'source' or 'content_preview': the
\* subscript of line 214 or 215 raises KeyError and the script ends.
ScriptTestSearchRaises ==
    /\ pc = "test_search"
    /\ \E o \in Outcomes : TestSearch(o, TRUE)
    /\ pc' = "script_raised"
    /\ UNCHANGED <<chunkVars, procVars, upsertVars, store, runVars, agentVars>>

\* The script is run a second time over the same files; the index keeps its
\* records.  Line 199 prints before process_pdfs_to_vectors is called.
Rerun ==
    /\ pc \in {"script_done", "script_raised"}
    /\ run = 1
    /\ run' = 2
    /\ ids_run1' = {r.id : r \in store}
    /\ pc' = "process_entry"
    /\ tokens' = <<>> /\ max_tokens' = 0 /\ overlap' = 0
    /\ start' = 0 /\ chunks' = <<>> /\ spans' = <<>>
    /\ fi' = 0 /\ idx' = 0 /\ policy_vectors' = <<>>
    /\ vectors' = <<>> /\ batch_size' = 0 /\ bi' = 0
    /\ req' = NoReq /\ result' = NoResult
    /\ calls' = <<>> /\ out' = <<Line("=== Processing PDFs ===", "-", 0)>>
    /\ UNCHANGED <<fs, pdf_files, max_chunk_tokens, store, faults, agentVars>>

\* A call of process_pdfs_to_vectors(pdf_pattern, max_chunk_tokens).
ProcessEnter(pdf_pattern, sizes) ==
    /\ pc = "process_entry"
    /\ pdf_files \in GlobResults(pdf_pattern)
    /\ fs \in [{pdf_files[k] : k \in 1..Len(pdf_files)} -> DocContents]
    /\ max_chunk_tokens \in sizes
    /\ fi = 0 /\ idx = 0 /\ policy_vectors = <<>>
    /\ ChunkIdle /\ UpsertIdle /\ RunIdle /\ AgentIdle
    /\ store = {} /\ req = NoReq /\ result = NoResult
    /\ calls = <<>> /\ faults = 0

\* A direct call of process_pdfs_to_vectors with a pattern and a chunk size.
InitProcess ==
    /\ \E pdf_pattern \in {ScriptPattern, AnyDirPattern} :
           ProcessEnter(pdf_pattern, ChunkSizes)
    /\ out = <<>>

NextProcess ==
    \/ ProcessNoFiles
    \/ ProcessBegin
    \/ ExtractSkip
    \/ ExtractChunk
    \/ ChunkStep
    \/ ProcessChunked
    \/ EmbedOk
    \/ EmbedFail
    \/ NextFile
    \/ ProcessReturn

SpecProcess == InitProcess /\ [][NextProcess]_vars

\* The script: line 199 has printed and line 200 calls
\* process_pdfs_to_vectors("policies/*.pdf") with the default chunk size.
InitIngest ==
    /\ ProcessEnter(ScriptPattern, {DefaultMaxChunkTokens})
    /\ out = <<Line("=== Processing PDFs ===", "-", 0)>>

NextIngest ==
    \/ ProcessNoFiles
    \/ ProcessBegin
    \/ ExtractSkip
    \/ ExtractChunk
    \/ ChunkStep
    \/ ProcessChunked
    \/ EmbedOk
    \/ EmbedFail
    \/ NextFile
    \/ ProcessReturn
    \/ ScriptUpsert
    \/ ScriptNoVectors
    \/ UpsertBegin
    \/ UpsertBatchOk
    \/ UpsertBatchFail
    \/ ScriptUpserted
    \/ ScriptTestSearch
    \/ ScriptTestSearchRaises
    \/ Rerun

SpecIngest == InitIngest /\ [][NextIngest]_vars

----------------------------------------------------------------------------
(* The whole program: a process runs the ingestion script, or serves        *)
(* retrieval requests through one of the entry points, or runs the agent.   *)

InitProgram == InitIngest \/ InitSearch \/ InitAgent

NextProgram == NextIngest \/ NextSearch \/ NextAgent

SpecProgram == InitProgram /\ [][NextProgram]_vars

----------------------------------------------------------------------------
(* Properties of the chunker, checked under SpecChunk. *)

CeilDiv(a, b) == (a + b - 1) \div b

\* A direct call has returned and its parameters were valid (0 <= O < W).
ChunkReturnedValid == pc = "chunk_returned" /\ overlap < max_tokens

\* Every token index of [0, T) lies in the range of some window.
Covered ==
    \A i \in 0..(Len(tokens) - 1) :
        \E k \in 1..Len(spans) : spans[k][1] <= i /\ i < spans[k][2]

\* Each returned chunk is the token window its range names.
ChunksAreWindows ==
    /\ Len(chunks) = Len(spans)
    /\ \A k \in 1..Len(chunks) :
          chunks[k] = SubSeq(tokens, spans[k][1] + 1, spans[k][2])

\* Number of token indexes shared by windows k and k+1.
OverlapOf(k) ==
    Max(0, Min(spans[k][2], spans[k + 1][2]) - Max(spans[k][1], spans[k + 1][1]))

\* C1 as stated: the windows cover every token index of [0, T), and every
\* pair of consecutive windows other than the pair ending in the last window
\* overlaps by exactly O tokens.
C1_CoverageOverlapOriginal ==
    ChunkReturnedValid =>
        /\ Covered
        /\ \A k \in 1..(Len(spans) - 2) : OverlapOf(k) = overlap

\* C1 amended: the windows cover every token index of [0, T); consecutive
\* windows k, k+1 overlap by exactly min(O, length of window k+1) tokens, which
\* is exactly O whenever window k is a full window of W tokens.
C1_CoverageOverlap ==
    ChunkReturnedValid =>
        /\ Covered
        /\ ChunksAreWindows
        /\ \A k \in 1..(Len(spans) - 1) :
              /\ OverlapOf(k) = Min(overlap, Len(chunks[k + 1]))
              /\ Len(chunks[k]) = max_tokens => OverlapOf(k) = overlap

\* A returned run where a truncated window is followed by two more windows.
C1_Witness ==
    /\ ChunkReturnedValid
    /\ overlap > 0
    /\ \E k \in 1..(Len(chunks) - 2) : Len(chunks[k]) < max_tokens

\* C2 as stated: the number of chunks is ceil((T - O) / (W - O)) when T > O,
\* 1 when 0 < T <= O, and 0 when T = 0.
C2_ChunkCountOriginal ==
    ChunkReturnedValid =>
        Len(chunks) = IF Len(tokens) = 0 THEN 0
                      ELSE IF Len(tokens) <= overlap THEN 1
                      ELSE CeilDiv(Len(tokens) - overlap, max_tokens - overlap)

\* C2 amended: the number of chunks is ceil(T / (W - O)), which is 0 when
\* T = 0 (one window per start offset 0, W-O, 2(W-O), ... below T).
C2_ChunkCount ==
    ChunkReturnedValid =>
        Len(chunks) = CeilDiv(Len(tokens), max_tokens - overlap)

\* A returned run whose last window starts inside the overlap of the one
\* before it, so that the two formulas differ.
C2_Witness ==
    /\ ChunkReturnedValid
    /\ Len(tokens) > overlap
    /\ Len(chunks) > CeilDiv(Len(tokens) - overlap, max_tokens - overlap)

\* C3 as stated: with overlap >= max_tokens the chunker fails before it
\* produces any window, and every call terminates: the loop never makes more
\* iterations than there are tokens.
C3_FailsFast ==
    /\ overlap >= max_tokens => chunks = <<>>
    /\ Len(chunks) <= Len(tokens)

----------------------------------------------------------------------------
(* Properties of upsert_to_pinecone, checked under SpecUpsert. *)

\* The index.upsert calls made so far, in order.
UpsertCalls == SelectSeq(calls, LAMBDA c : c.svc = "upsert")

RECURSIVE Flatten(_)
Flatten(seqs) ==
    IF seqs = <<>> THEN <<>> ELSE Head(seqs) \o Flatten(Tail(seqs))

\* The records submitted so far, batch after batch.
Submitted == Flatten([k \in 1..Len(UpsertCalls) |-> UpsertCalls[k].arg])

RECURSIVE WrittenCount(_)
\* Number of records in the batches whose index.upsert succeeded.
WrittenCount(cs) ==
    IF cs = <<>> THEN 0
    ELSE (IF Head(cs).ok THEN Len(Head(cs).arg) ELSE 0) + WrittenCount(Tail(cs))

\* C6: the batches submitted are consecutive slices of at most batch_size
\* records that partition the list in order, and every batch is attempted
\* exactly once whether or not earlier batches failed: while the loop runs,
\* the records submitted so far are exactly the first min(i, n) records, and
\* at the return they are the whole list in ceil(n / batch_size) batches.
C6_BatchesPartition ==
    pc \in {"upsert_loop", "upsert_returned"} =>
        /\ Submitted = SubSeq(vectors, 1, Min(bi, Len(vectors)))
        /\ \A k \in 1..Len(UpsertCalls) :
              /\ Len(UpsertCalls[k].arg) >= 1
              /\ Len(UpsertCalls[k].arg) <= batch_size
        /\ pc = "upsert_returned" /\ vectors # <<>> =>
              /\ Submitted = vectors
              /\ Len(UpsertCalls) = CeilDiv(Len(vectors), batch_size)

\* A returned call of three batches or more whose first batch failed and
\* whose last batch was written.
C6_Witness ==
    /\ pc = "upsert_returned"
    /\ Len(UpsertCalls) >= 3
    /\ ~UpsertCalls[1].ok
    /\ UpsertCalls[Len(UpsertCalls)].ok

\* C7 as stated: when upsert_to_pinecone returns, the number of records it
\* reports as written is the number of records in the batches whose index
\* call succeeded, and after a failed batch the caller is handed a result
\* that tells it so.
C7_ReportsWritten ==
    pc = "upsert_returned" /\ vectors # <<>> =>
        /\ \A k \in 1..Len(out) :
              out[k].msg = "Successfully inserted policy chunks"
                  => out[k].n = WrittenCount(UpsertCalls)
        /\ (\E k \in 1..Len(UpsertCalls) : ~UpsertCalls[k].ok)
              => result.kind # "None"

----------------------------------------------------------------------------
(* Properties of the retrieval entry points, checked under SpecSearch. *)

\* A request has been served.
Served == req.ep # "-"

\* The caller can tell the result is an error: an exception, a list or JSON
\* object carrying an "error" key, or a text that starts with "Error:".
IsError(r) ==
    \/ r.how = "raise"
    \/ /\ r.kind \in {"list", "json object"}
       /\ r.items # <<>>
       /\ "error" \in DOMAIN r.items[1]
    \/ /\ r.kind = "TextContent"
       /\ r.detail \in {"Error: Missing 'query' parameter",
                        "Error: embedding error", "Error: index error"}

\* What the entry point of the served request gives when both calls succeed
\* and the index has no match.
EmptySuccess ==
    LET o == [embed_ok |-> TRUE, index_ok |-> TRUE, matches |-> <<>>]
        q == "What is the refund policy?"
    IN  CASE req.ep = "search_helper.search_faq" -> helper_search_faq(q, 3, o).result
          [] req.ep = "openai_agent.search_faq" -> agent_search_faq(q, 3, o).result
          [] req.ep = "api_server.search_faq" -> server_search_faq(q, 3, o).result
          [] req.ep = "api_vercel.search_faq" -> vercel_search_faq(q, 3, o).result
          [] req.ep = "vector_db.search_policies" -> search_policies(q, 3, o).result
          [] req.ep = "faq.call_tool" -> faq_call_tool("search_faq", q, o).result
          [] req.ep = "faq2.call_tool" -> faq2_call_tool("search_faq", q, o).result

\* C4 as stated: a search whose query is empty or missing, or whose topK is
\* not positive, ends in an error and makes no embedding call and no index
\* query, at every entry point.
C4_ValidationRejects ==
    Served /\ (Falsy(req.query) \/ req.top_k <= 0) =>
        /\ calls = <<>>
        /\ IsError(result)

\* C9 as stated: when the embedding call or the index query of a search
\* for a non-empty query and a positive topK fails, the caller receives an error it can tell from every successful
\* result, the empty one included, and no exception other than the HTTP
\* error response of the web handlers leaves the call.
C9_FailureReported ==
    /\ Served
    /\ ~Falsy(req.query) /\ req.top_k > 0
    /\ \E k \in 1..Len(calls) : ~calls[k].ok
    =>
        /\ IsError(result)
        /\ result # EmptySuccess
        /\ result.how = "raise" => result.kind = "HTTPException"

----------------------------------------------------------------------------
(* Properties of process_pdfs_to_vectors, checked under SpecProcess, and of *)
(* the script's two runs, checked under SpecIngest.                        *)

\* The file can be read and holds text.
GoodDoc(p) == fs[p].readable /\ fs[p].text # <<>>

\* The advance of the chunk window in process_pdfs_to_vectors.
IngestStep == max_chunk_tokens - DefaultOverlap

\* The chunks a good file must give: one per start offset below its length.
ExpectedOfFile(k) ==
    LET p == pdf_files[k]
        text == fs[p].text
        n == CeilDiv(Len(text), IngestStep)
    IN  IF ~GoodDoc(p) THEN <<>>
        ELSE [i \in 1..n |->
                [pos |-> k, filename |-> Basename(p), idx |-> i - 1, total |-> n,
                 chunk |-> SubSeq(text, (i - 1) * IngestStep + 1,
                                  Min((i - 1) * IngestStep + max_chunk_tokens, Len(text)))]]

\* The chunks of all files, in the order of the files.
ExpectedChunks == Flatten([k \in 1..Len(pdf_files) |-> ExpectedOfFile(k)])

\* The ids the files determine: (stem, chunk index).
ExpectedIds ==
    LET E == ExpectedChunks
    IN  {<<E[j].filename.stem, E[j].idx>> : j \in 1..Len(E)}

\* The embedding calls of the ingestion so far, in order.
EmbedCalls ==
    SelectSeq(calls, LAMBDA c : c.svc = "embed" /\ c.site = "embed_text")

\* The lines that close the handling of a file: skipped, or chunked.
DocLines ==
    SelectSeq(out, LAMBDA l : l.msg \in {"Skipping - no text extracted", "Created chunks"})

\* The paths reported as unreadable.
ErrorReadingPaths ==
    {out[k].file : k \in {j \in 1..Len(out) : out[j].msg = "Error reading"}}

\* C5: no exception leaves process_pdfs_to_vectors, and when it returns,
\* every file that cannot be read or has no text was skipped with a printed
\* line (an unreadable one also with its read error), and every other file
\* was extracted and chunked into the chunks its text determines, each of
\* which was given to the embedding service.
C5_PartialFailureIsolation ==
    /\ pc # "process_raised"
    /\ pc = "process_returned" /\ pdf_files # <<>> =>
          /\ LET D == DocLines
             IN  /\ Len(D) = Len(pdf_files)
                 /\ \A k \in 1..Len(pdf_files) :
                       D[k] =
                           IF GoodDoc(pdf_files[k])
                           THEN Line("Created chunks", Basename(pdf_files[k]),
                                     Len(ExpectedOfFile(k)))
                           ELSE Line("Skipping - no text extracted",
                                     Basename(pdf_files[k]), 0)
          /\ ErrorReadingPaths =
                {pdf_files[k] : k \in {j \in 1..Len(pdf_files) : ~fs[pdf_files[j]].readable}}
          /\ Len(EmbedCalls) = Len(ExpectedChunks)

\* Three files, the second unreadable: the call returned with records of the
\* first and of the third.
C5_Witness ==
    /\ pc = "process_returned"
    /\ Len(pdf_files) = 3
    /\ GoodDoc(pdf_files[1]) /\ ~fs[pdf_files[2]].readable /\ GoodDoc(pdf_files[3])
    /\ Len(SelectSeq(DocLines, LAMBDA l : l.msg = "Created chunks")) = 2
    /\ Len(SelectSeq(DocLines, LAMBDA l : l.msg = "Skipping - no text extracted")) = 1
    /\ ErrorReadingPaths = {pdf_files[2]}
    /\ \E a, b \in 1..Len(policy_vectors) :
          /\ policy_vectors[a].source = Basename(pdf_files[1])
          /\ policy_vectors[b].source = Basename(pdf_files[3])
          /\ a < b

\* The records of the chunks es whose embedding calls cs succeeded.
RECURSIVE RecordsOf(_, _)
RecordsOf(es, cs) ==
    IF es = <<>> THEN <<>>
    ELSE (IF Head(cs).ok
          THEN << [id |-> <<Head(es).filename.stem, Head(es).idx>>,
                   source |-> Head(es).filename,
                   chunk_index |-> Head(es).idx,
                   total_chunks |-> Head(es).total,
                   type |-> "policy",
                   chunk |-> Head(es).chunk] >>
          ELSE <<>>)
         \o RecordsOf(Tail(es), Tail(cs))

\* The lines printed for the chunks es whose embedding calls cs failed.
RECURSIVE FailureLinesOf(_, _)
FailureLinesOf(es, cs) ==
    IF es = <<>> THEN <<>>
    ELSE (IF Head(cs).ok THEN <<>>
          ELSE <<Line("Error embedding chunk", Head(es).filename, Head(es).idx)>>)
         \o FailureLinesOf(Tail(es), Tail(cs))

\* C10: when process_pdfs_to_vectors returns, every chunk of every good file
\* was given to the embedding service, whatever calls failed before it; the
\* records returned are exactly those of the chunks whose call succeeded, in
\* order, each with its own chunk index in its id and metadata; each failed
\* chunk has its printed line; and no exception left the call.
C10_ChunkFailureIsolation ==
    /\ pc # "process_raised"
    /\ pc = "process_returned" /\ pdf_files # <<>> =>
          LET E == ExpectedChunks
              C == EmbedCalls
          IN  /\ Len(C) = Len(E)
              /\ \A j \in 1..Len(C) : C[j].arg = E[j].chunk
              /\ policy_vectors = RecordsOf(E, C)
              /\ SelectSeq(out, LAMBDA l : l.msg = "Error embedding chunk")
                    = FailureLinesOf(E, C)

\* A returned call where a chunk failed, a later chunk of the same file was
\* embedded and so was a chunk of a later file.
C10_Witness ==
    /\ pc = "process_returned"
    /\ LET E == ExpectedChunks
           C == EmbedCalls
       IN  /\ Len(C) = Len(E)
           /\ \E j, k, l \in 1..Len(C) :
                 /\ j < k /\ k < l
                 /\ ~C[j].ok /\ C[k].ok /\ C[l].ok
                 /\ E[j].pos = E[k].pos
                 /\ E[l].pos > E[k].pos
                 /\ \E a \in 1..Len(policy_vectors) :
                       /\ policy_vectors[a].source = E[k].filename
                       /\ policy_vectors[a].chunk_index = E[k].idx
                       /\ policy_vectors[a].chunk_index > 0

\* The ids of the records in the index.
StoreIds == {r.id : r \in store}

\* The script has ended: after its last line, or with the KeyError of the
\* printing of a match, which comes after the upsert.
ScriptEnded == pc \in {"script_done", "script_raised"}

\* C8 as stated: after the second run of ingest-and-upsert over the same
\* files with the same chunking parameters, the set of record ids in the
\* index is the set it was after the first run.
C8_SameIdsOriginal ==
    ScriptEnded /\ run = 2 => StoreIds = ids_run1

\* C8 amended: every record made for chunk i of a file has the id (stem, i)
\* in every run, so after any run the index holds at most one record per id
\* and only ids of the set the files determine; the second run loses no id of
\* the first, and the two sets are equal when the first run wrote every id
\* (in particular when no external call failed).
C8_IdempotentIds ==
    /\ pc = "process_returned" \/ ScriptEnded =>
          \A k \in 1..Len(policy_vectors) :
              policy_vectors[k].id =
                  <<policy_vectors[k].source.stem, policy_vectors[k].chunk_index>>
    /\ ScriptEnded =>
          LET X == ExpectedIds
              S == StoreIds
          IN  /\ IdsOf(policy_vectors) \subseteq X
              /\ S \subseteq X
              /\ Cardinality(S) = Cardinality(store)
              /\ faults = 0 => S = X
              /\ run = 2 =>
                    /\ ids_run1 \subseteq S
                    /\ ids_run1 = X => S = ids_run1

\* The second run ended with the ids of the first, two or more of them.
C8_Witness ==
    /\ pc = "script_done"
    /\ run = 2
    /\ Cardinality(StoreIds) >= 2
    /\ StoreIds = ids_run1
    /\ IdsOf(policy_vectors) = ids_run1

----------------------------------------------------------------------------
(* The stages of a document, read from the state of the ingestion.  The     *)
(* document at position k of pdf_files is the one handled by iteration k of *)
(* the for loop; the j-th embed_text call of a run is the call for the j-th *)
(* chunk of ExpectedChunks, and the m-th record of policy_vectors is the    *)
(* record of the m-th call that succeeded.                                  *)

\* The chunks of the good files.  With max_chunk_tokens = 200 the window does
\* not advance and the first good file never leaves the chunker, so no chunk
\* reaches the embedding loop.
IngestChunks == IF IngestStep > 0 THEN ExpectedChunks ELSE <<>>

\* Per record position of the index.upsert calls cs: did its batch succeed.
RECURSIVE SubmittedOk(_)
SubmittedOk(cs) ==
    IF cs = <<>> THEN <<>>
    ELSE [i \in 1..Len(Head(cs).arg) |-> Head(cs).ok] \o SubmittedOk(Tail(cs))

\* Number of the calls cs[1..j] that succeeded: the position in
\* policy_vectors of the record of call j, when call j succeeded.
OkBefore(cs, j) == Cardinality({i \in 1..j : cs[i].ok})

\* Per chunk of IngestChunks, the position in pdf_files of its document.
ChunkOwners ==
    IF IngestStep > 0
    THEN Flatten([k \in 1..Len(pdf_files) |->
                     IF GoodDoc(pdf_files[k])
                     THEN [i \in 1..CeilDiv(Len(fs[pdf_files[k]].text), IngestStep) |-> k]
                     ELSE <<>>])
    ELSE <<>>

\* The stage of the document at position k in the current run, given the
\* owners O of the chunks, the embed_text calls C and the flags W of the
\* records submitted: a chunk of the document is embedded when its call
\* succeeded, and written when the batch of its record succeeded.
StageAt(k, O, C, W) ==
    IF pc = "process_entry" \/ k > fi THEN "Discovered"
    ELSE IF k = fi /\ pc = "for_file" THEN "Discovered"
    ELSE IF k = fi /\ pc = "chunk_loop" THEN "Extracted"
    ELSE IF ~GoodDoc(pdf_files[k]) THEN "Failed"
    ELSE IF \E j \in 1..Min(Len(C), Len(O)) :
               /\ O[j] = k /\ C[j].ok
               /\ OkBefore(C, j) <= Len(W)
               /\ W[OkBefore(C, j)]
         THEN "Upserted"
    ELSE IF \E j \in 1..Min(Len(C), Len(O)) : O[j] = k /\ C[j].ok THEN "Embedded"
    ELSE "Chunked"

\* The stage of every document of pdf_files in the current state.
Stages ==
    [k \in 1..Len(pdf_files) |->
        StageAt(k, ChunkOwners, EmbedCalls, SubmittedOk(UpsertCalls))]

\* The moves between stages: one stage forward, or to Failed at extraction.
StageMoves ==
    { <<"Discovered", "Extracted">>, <<"Discovered", "Failed">>,
      <<"Extracted", "Chunked">>, <<"Chunked", "Embedded">>,
      <<"Embedded", "Upserted">> }

\* What holds of the calls of a run at every moment: the embed_text calls are
\* the calls for the first chunks of the good files, in order, none for a
\* chunk of a file not yet reached; the records built are those of the calls
\* that succeeded; every record submitted to the index is one of them, in
\* order; and no embed_text call follows an index.upsert call.
SubmittedAfterEmbedded ==
    LET E == IngestChunks
        C == EmbedCalls
    IN  /\ ChunkOwners = [j \in 1..Len(E) |-> E[j].pos]
        /\ Len(C) <= Len(E)
        /\ \A j \in 1..Len(C) :
              /\ C[j].arg = E[j].chunk
              /\ E[j].pos <= fi
              /\ GoodDoc(pdf_files[E[j].pos])
        /\ policy_vectors = RecordsOf(SubSeq(E, 1, Len(C)), C)
        /\ Len(Submitted) <= Len(policy_vectors)
        /\ Submitted = SubSeq(policy_vectors, 1, Len(Submitted))
        /\ \A a \in 1..Len(calls) :
              calls[a].svc = "upsert" =>
                  \A b \in (a + 1)..Len(calls) : calls[b].site # "embed_text"

\* C11: within a run each document moves through Discovered, Extracted,
\* Chunked, Embedded, Upserted one stage at a time and never backwards, a
\* document without text going from Discovered to Failed and staying there;
\* a record is submitted to the index only after its document gave text, was
\* chunked and that chunk was embedded successfully; and a document whose
\* extraction gives no text never has a chunk embedded or a record submitted.
C11_StageOrder ==
    /\ []SubmittedAfterEmbedded
    /\ [][run' = run =>
             \E O \in {ChunkOwners},
                C1 \in {EmbedCalls}, W1 \in {SubmittedOk(UpsertCalls)},
                C2 \in {EmbedCalls'}, W2 \in {SubmittedOk(UpsertCalls)'} :
                 \A k \in 1..Len(pdf_files) :
                     \E s \in {StageAt(k, O, C1, W1)}, t \in {StageAt(k, O, C2, W2)'} :
                         s = t \/ <<s, t>> \in StageMoves]_vars

\* The script ended with a document that failed at extraction and a later
\* document whose record was written to the index.
C11_Witness ==
    /\ pc = "script_done"
    /\ \E a, b \in 1..Len(pdf_files) :
          /\ a < b
          /\ Stages[a] = "Failed"
          /\ Stages[b] = "Upserted"
          /\ \E r \in store : r.source = Basename(pdf_files[b])

----------------------------------------------------------------------------
(* Properties of the embedding intents, checked under SpecProgram. *)

\* The call sites of co.embed: the ingestion path and the retrieval paths.
IngestionSites == {"embed_text"}
RetrievalSites ==
    {"search_helper.search_faq", "openai_agent.search_faq", "api_server.search_faq",
     "api_vercel.search_faq", "vector_db.search_policies", "faq.call_tool",
     "faq2.call_tool"}

\* The calls made to the embedding service, in order.
AllEmbedCalls == SelectSeq(calls, LAMBDA c : c.svc = "embed")

\* C12: the two embedding intents are never swapped: every embedding call
\* issued by the ingestion path uses search_document, every embedding call
\* issued by a retrieval path uses search_query, and there is no embedding
\* call from anywhere else; the calls of process_pdfs_to_vectors are all of
\* the ingestion path, the calls of a served request are all of the entry
\* point that served it, and the calls of run_agent are all of its search_faq.
C12_IntentsNotSwapped ==
    LET A == AllEmbedCalls
    IN  /\ \A j \in 1..Len(A) :
              /\ A[j].site \in IngestionSites \cup RetrievalSites
              /\ A[j].site \in IngestionSites => A[j].input_type = "search_document"
              /\ A[j].site \in RetrievalSites => A[j].input_type = "search_query"
        /\ pc \in {"for_file", "chunk_loop", "embed_loop", "process_returned",
                   "upsert_entry", "upsert_loop"} =>
              \A j \in 1..Len(A) : A[j].site \in IngestionSites
        /\ pc = "serving" =>
              \A j \in 1..Len(A) : A[j].site = req.ep
        /\ pc \in {"agent_first", "agent_tools", "agent_returned", "agent_raised"} =>
              \A j \in 1..Len(A) : A[j].site = "openai_agent.search_faq"

\* The script ended after embedding a chunk with the document intent and
\* then the test query with the query intent.
C12_Witness ==
    /\ pc = "script_done"
    /\ \E a, b \in 1..Len(calls) :
          /\ a < b
          /\ calls[a].svc = "embed" /\ calls[a].site = "embed_text"
          /\ calls[a].input_type = "search_document" /\ calls[a].ok
          /\ calls[b].svc = "embed" /\ calls[b].site = "vector_db.search_policies"
          /\ calls[b].input_type = "search_query"

----------------------------------------------------------------------------
(* Properties of the record ids, checked under SpecProcess. *)

\* The document of the m-th record of policy_vectors, as a position of
\* pdf_files: the owner of the m-th embed_text call that succeeded.
RecordOwner(m, O, C) ==
    O[CHOOSE j \in 1..Len(C) : C[j].ok /\ OkBefore(C, j) = m]

\* C13 as stated: among the records one call of process_pdfs_to_vectors
\* returns, two records have the same id only if they come from the same
\* file and the same chunk index, so records of two distinct files matched
\* by the pattern never share an id.
C13_UniqueIds ==
    pc = "process_returned" /\ IngestStep > 0 =>
        LET O == ChunkOwners
            C == EmbedCalls
        IN  \A a, b \in 1..Len(policy_vectors) :
                policy_vectors[a].id = policy_vectors[b].id =>
                    /\ RecordOwner(a, O, C) = RecordOwner(b, O, C)
                    /\ policy_vectors[a].chunk_index = policy_vectors[b].chunk_index

----------------------------------------------------------------------------
(* Properties of run_agent, checked under SpecAgent. *)

\* The completion requests made so far, in order.
ChatCalls == SelectSeq(calls, LAMBDA c : c.svc = "chat")

\* The tool calls of the first response, <<>> before it arrived.
FirstToolCalls == IF Len(messages) >= 3 THEN messages[3].tool_calls ELSE <<>>

\* Number of tool-role messages for the id after the assistant message in
\* the conversation sent.
AnswersTo(id, sent) ==
    Cardinality({m \in 4..Len(sent) :
                    sent[m].role = "tool" /\ sent[m].tool_call_id = id})

\* C14 as stated: run_agent makes at most two completion requests, the
\* second one only when the first response had tool calls and, when it
\* returns, whenever that response had tool calls; the conversation of the
\* second request holds, after the assistant message, exactly one tool-role
\* message with the matching tool_call_id for every tool call of the first
\* response, whatever function name the tool call carries.
C14_ToolCallsAnswered ==
    /\ Len(ChatCalls) <= 2
    /\ Len(ChatCalls) = 2 => FirstToolCalls # <<>>
    /\ pc = "agent_returned" /\ FirstToolCalls # <<>> => Len(ChatCalls) = 2
    /\ Len(ChatCalls) = 2 =>
          /\ ChatCalls[2].arg[3] = messages[3]
          /\ \A i \in 1..Len(FirstToolCalls) :
                AnswersTo(FirstToolCalls[i].id, ChatCalls[2].arg) = 1

====
